---- MODULE Spec2Model ----
(***************************************************************************)
(* Model of the Hydrogen Safety Trainer.                                   *)
(*  - src/quiz_engine.py: the Question records, the QuizEngine session     *)
(*    state and its operations prepare_quiz, current, check_and_record,    *)
(*    next (specification Spec; SpecSession is one session under a caller  *)
(*    that keeps calling next).                                            *)
(*  - src/app.py, TrainerApp: loading a bank, the quiz flow, the pass      *)
(*    threshold, the recommendations and the certificate gate              *)
(*    (specifications SpecApp and SpecFinish).                             *)
(*  - src/app.py, SafetyAnimation: the concentration grid, its tick _step  *)
(*    and the start / pause / reset / timer life cycle (specification      *)
(*    SpecSim; SpecDiffuse reads the sliders at diffusion-only settings).  *)
(***************************************************************************)
EXTENDS Integers, Sequences, FiniteSets, TLC

\* ---------------------------------------------------------------- bounds
MaxBank == 2      \* longest question bank handed to QuizEngine(questions)
MaxHist == 2      \* cap on len(history) (check_and_record itself has none)
MaxN == 2         \* largest n passed to prepare_quiz
MaxChosen == 2    \* largest chosen_index passed to check_and_record
MaxFile == 1      \* longest question file given to load_questions_from_path
MaxTotal == 10    \* most items of a uniformly answered quiz (SpecFinish)
MaxRecs == 6      \* most items of a mixed-category quiz (SpecFinish)
MaxTicks == 6     \* most executions of _step in a behaviour (SpecSim)

\* ---------------------------------------------------------------- helpers
Min(a, b) == IF a < b THEN a ELSE b
Max(a, b) == IF a > b THEN a ELSE b

\* Python's None, as the category argument of prepare_quiz.
None == "None"

\* ------------------------------------------------------------- questions
\* Question(id, category, difficulty, question, choices, correct_index,
\* rationale): three bank records.  Q3 carries a correct_index outside its
\* choices, which from_dict accepts without validation.
Q1 == [id |-> "q1", category |-> "A", difficulty |-> "easy", question |-> "t1",
       choices |-> <<"a", "b">>, correct_index |-> 0, rationale |-> "r1"]
Q2 == [id |-> "q2", category |-> "B", difficulty |-> "hard", question |-> "t2",
       choices |-> <<"a", "b">>, correct_index |-> 1, rationale |-> ""]
Q3 == [id |-> "q3", category |-> "A", difficulty |-> "hard", question |-> "t3",
       choices |-> <<"a", "b">>, correct_index |-> 2, rationale |-> "r3"]

Question == {Q1, Q2, Q3}

\* The banks a QuizEngine may be constructed with.
Banks == UNION {[1..k -> Question] : k \in 0..MaxBank}

\* Arguments the callers pass.
NValues == -1..MaxN
CategoryValues == {None, "A", "B", "C"}
ChosenValues == -1..MaxChosen

VARIABLES
    all_questions,   \* self.all_questions: the bank, a sequence of Question
    quiz_items,      \* self.quiz_items: sequence of positions in the bank
    index,           \* self.index
    correct_count,   \* self.correct_count
    history,         \* self.history: sequence of answer records
    op,              \* name of the last method called on the engine
    args,            \* its arguments
    ret,             \* its return value, as a tuple
    ended,           \* next() has returned False in the current session
    engine,          \* TrainerApp.engine: None or "QuizEngine"
    pass_threshold,  \* TrainerApp.pass_threshold, in percent (0.70 is 70)
    passed,          \* TrainerApp.passed
    rec_text,        \* the lines _build_recommendations gave finish_quiz
    msg,             \* title of the message box the last handler showed
    cert,            \* the certificate the last handler wrote, <<>> if none
    c,               \* SafetyAnimation.c: the non-zero cells of the grid
    running,         \* SafetyAnimation.running
    after_id,        \* SafetyAnimation.after_id: <<>> for None, or <<id>>
    timers,          \* ids of the after() callbacks Tk still has pending
    ticks,           \* number of _step executions so far
    clipped,         \* the last _step's np.clip changed a cell
    rendered,        \* _render has drawn the grid on the canvas
    sim_op           \* the last simulator handler run and self.running as it
                     \* found it: <<name, running>>

engine_vars == <<all_questions, quiz_items, index, correct_count, history,
                 op, args, ret, ended>>

app_vars == <<engine, pass_threshold, passed, rec_text, msg, cert>>

sim_vars == <<c, running, after_id, timers, ticks, clipped, rendered, sim_op>>

vars == <<engine_vars, app_vars, sim_vars>>

\* ------------------------------------------------------------ list slices
\* Python's s[:k] on a list: k >= 0 keeps the first min(k, len) elements,
\* k < 0 drops the last -k elements.
PyPrefix(s, k) ==
    IF k >= 0 THEN SubSeq(s, 1, Min(k, Len(s)))
    ELSE SubSeq(s, 1, Max(Len(s) + k, 0))

\* Positions i of s, in increasing order, that satisfy Keep(i).
RECURSIVE FilterPos(_, _, _)
FilterPos(bank, category, i) ==
    IF i > Len(bank) THEN <<>>
    ELSE IF category = None \/ bank[i].category = category
         THEN <<i>> \o FilterPos(bank, category, i + 1)
         ELSE FilterPos(bank, category, i + 1)

\* A variant that forgets the category test.
PoolOfAll(bank, category) == FilterPos(bank, None, 1)

\* pool = [q for q in self.all_questions if (category is None or
\*         q.category == category)]
PoolOf(bank, category) == FilterPos(bank, category, 1)

\* random.shuffle(pool): any reordering of the pool.
Shuffles(pool) ==
    LET n == Len(pool)
        Bij == {p \in [1..n -> 1..n] : \A i, j \in 1..n : p[i] = p[j] => i = j}
    IN  {[i \in 1..n |-> pool[p[i]]] : p \in Bij}

\* A variant that slices with n itself.
TruncateRaw(pool, n) == PyPrefix(pool, n)

\* pool[:max(1, n)]
Truncate(pool, n) == PyPrefix(pool, Max(1, n))

\* ------------------------------------------------------------- the engine
\* PASS_THRESHOLD_DEFAULT = 0.70, in percent.
PASS_THRESHOLD_DEFAULT == 70

\* TrainerApp.__init__: the fields of a new application around an engine
\* value e (None unless a bank has been loaded).
AppInit(e) ==
    /\ engine = e
    /\ pass_threshold = PASS_THRESHOLD_DEFAULT
    /\ passed = FALSE
    /\ rec_text = <<>>
    /\ msg = ""
    /\ cert = <<>>

\* QuizEngine.__init__(questions)
EngineInit(questions) ==
    /\ all_questions = questions
    /\ quiz_items = <<>>
    /\ index = 0
    /\ correct_count = 0
    /\ history = <<>>
    /\ op = "__init__"
    /\ args = <<>>
    /\ ret = <<>>
    /\ ended = FALSE

\* ------------------------------------------------------------ simulator
\* The grid holds floats; the model keeps them as whole multiples of
\* 1/Scale, every product rounded down to such a multiple.
Scale == 1000

\* n/d as a multiple of 1/Scale.
Frac(n, d) == (n * Scale) \div d

\* a * b for two such numbers.
Mul(a, b) == (a * b) \div Scale

\* self.NX, self.NY = 70, 35
NX == 70
NY == 35

\* self.leak_cell = (6, self.NY-4), read as li, lj and used as c[lj, li];
\* cells are <<row, column>>.
leak_cell == <<NY - 4, 6>>

\* self.vent_x0, self.vent_x1 = 20, self.NX-20
vent_x0 == 20
vent_x1 == NX - 20

\* What the four sliders can hold when _step reads them: the positions set
\* by __init__, a strong leak in still air, every slider at its upper end,
\* and every slider at its lower end.
SliderSettings ==
    {[leak_rate |-> Frac(8, 10), vent_strength |-> Frac(6, 10),
      buoyancy |-> Frac(45, 100), diffusion |-> Frac(2, 10)],
     [leak_rate |-> 2 * Scale, vent_strength |-> 0, buoyancy |-> 0, diffusion |-> 0],
     [leak_rate |-> 2 * Scale, vent_strength |-> Scale, buoyancy |-> Scale,
      diffusion |-> Frac(6, 10)],
     [leak_rate |-> 0, vent_strength |-> 0, buoyancy |-> 0, diffusion |-> 0]}

\* np.zeros((NY, NX)): no cell is non-zero.
ZeroGrid == [p \in {} |-> 0]

\* g[j, i]
At(g, j, i) == IF <<j, i>> \in DOMAIN g THEN g[<<j, i>>] ELSE 0

\* The non-zero cells of g.
Sparse(g) ==
    LET nz == {p \in DOMAIN g : g[p] # 0} IN [p \in nz |-> g[p]]

\* The cells of the grid that a cell of g or one of its four neighbours is.
Around(g) ==
    {q \in UNION {{p, <<p[1] - 1, p[2]>>, <<p[1] + 1, p[2]>>,
                   <<p[1], p[2] - 1>>, <<p[1], p[2] + 1>>} : p \in DOMAIN g} :
        q[1] \in 0..(NY - 1) /\ q[2] \in 0..(NX - 1)}

\* c[lj, li] += 0.5 * self.leak_rate.get()
Injected(g, leak) ==
    Sparse([p \in DOMAIN g \cup {leak_cell} |->
               At(g, p[1], p[2])
               + (IF p = leak_cell THEN Mul(Frac(1, 2), leak) ELSE 0)])

\* if up > 0: tmp = c; tmp[:-1] += up * c[1:]; tmp[1:] -= up * c[1:];
\* c = maximum(tmp, 0)
Risen(g, up) ==
    IF up > 0
    THEN Sparse([p \in Around(g) |->
                    Max(0, At(g, p[1], p[2])
                           + (IF p[1] <= NY - 2 THEN Mul(up, At(g, p[1] + 1, p[2]))
                              ELSE 0)
                           - (IF p[1] >= 1 THEN Mul(up, At(g, p[1], p[2])) ELSE 0))])
    ELSE g

\* A variant that applies the stencil to the cells of the outer ring too.
DiffusedAll(g, d) ==
    IF d > 0
    THEN Sparse([p \in Around(g) |->
                    Max(0, Mul(Scale - 4 * d, At(g, p[1], p[2]))
                           + Mul(d, At(g, p[1] + 1, p[2]) + At(g, p[1] - 1, p[2])
                                    + At(g, p[1], p[2] + 1) + At(g, p[1], p[2] - 1)))])
    ELSE g

\* if d > 0: tmp = c; tmp[1:-1,1:-1] = (1-4d)*c + d*(four neighbours);
\* c = maximum(tmp, 0)
Diffused(g, d) ==
    IF d > 0
    THEN Sparse([p \in Around(g) |->
                    IF p[1] \in 1..(NY - 2) /\ p[2] \in 1..(NX - 2)
                    THEN Max(0, Mul(Scale - 4 * d, At(g, p[1], p[2]))
                                + Mul(d, At(g, p[1] + 1, p[2]) + At(g, p[1] - 1, p[2])
                                         + At(g, p[1], p[2] + 1) + At(g, p[1], p[2] - 1)))
                    ELSE Max(0, At(g, p[1], p[2]))])
    ELSE g

\* if vent > 0: c[0, i0:i1] *= (1 - 0.6*vent)
Vented(g, vent) ==
    IF vent > 0
    THEN Sparse([p \in DOMAIN g |->
                    IF p[1] = 0 /\ p[2] \in vent_x0..(vent_x1 - 1)
                    THEN Mul(g[p], Scale - Mul(Frac(6, 10), vent))
                    ELSE g[p]])
    ELSE g

\* A variant of the clip without the upper end.
ClipLow(v) == Max(0, v)

\* np.clip(v, 0.0, 5.0)
Clip(v) == Max(0, Min(5 * Scale, v))

\* The grid before the final clip of _step, the sliders being at s.
Unclipped(g, s) ==
    Vented(Diffused(Risen(Injected(g, s.leak_rate), s.buoyancy), s.diffusion),
           s.vent_strength)

\* _step(): the grid after a tick.
step(g, s) ==
    LET u == Unclipped(g, s) IN Sparse([p \in DOMAIN u |-> Clip(u[p])])

\* SafetyAnimation.__init__
SimInit ==
    /\ c = ZeroGrid
    /\ running = FALSE
    /\ after_id = <<>>
    /\ timers = {}
    /\ ticks = 0
    /\ clipped = FALSE
    /\ rendered = FALSE
    /\ sim_op = <<"__init__", FALSE>>

\* The body of loop(): _step(), _render(), and when run (self.running) holds,
\* after(40, self.loop) with a fresh id; pending are the callbacks Tk holds
\* when the body starts.
LoopBody(s, run, pending) ==
    /\ ticks < MaxTicks
    /\ c' = step(c, s)
    /\ clipped' = (step(c, s) # Unclipped(c, s))
    /\ ticks' = ticks + 1
    /\ rendered' = TRUE
    /\ IF run
       THEN after_id' = <<ticks + 1>> /\ timers' = pending \cup {ticks + 1}
       ELSE after_id' = after_id /\ timers' = pending

\* Tk runs the pending callback id: loop().
loop(id, s) ==
    /\ id \in timers
    /\ LoopBody(s, running, timers \ {id})
    /\ sim_op' = <<"loop", running>>
    /\ UNCHANGED running

\* A variant of start without the "if self.running: return".
start_unguarded(s) ==
    /\ sim_op' = <<"start", running>>
    /\ running' = TRUE /\ LoopBody(s, TRUE, timers)

\* start()
start(s) ==
    /\ sim_op' = <<"start", running>>
    /\ IF running
       THEN UNCHANGED <<c, running, after_id, timers, ticks, clipped, rendered>>
       ELSE running' = TRUE /\ LoopBody(s, TRUE, timers)

\* A variant of pause that forgets the pending callback without cancelling
\* it.
PausedKeep ==
    /\ running' = FALSE
    /\ after_id' = <<>>
    /\ timers' = timers

\* A variant of pause that cancels the callback and leaves running set.
PausedStillRunning ==
    /\ running' = running
    /\ after_id' = <<>>
    /\ timers' = IF after_id # <<>> THEN timers \ {after_id[1]} ELSE timers

\* The statements of pause(): running = False; if after_id:
\* after_cancel(after_id); after_id = None
Paused ==
    /\ running' = FALSE
    /\ after_id' = <<>>
    /\ timers' = IF after_id # <<>> THEN timers \ {after_id[1]} ELSE timers

\* A variant of reset that leaves the grid as it is.
reset_dirty ==
    /\ sim_op' = <<"reset", running>>
    /\ Paused
    /\ rendered' = TRUE
    /\ UNCHANGED <<c, ticks, clipped>>

\* pause()
pause ==
    /\ sim_op' = <<"pause", running>>
    /\ Paused
    /\ UNCHANGED <<c, ticks, clipped, rendered>>

\* reset(): pause(); _init_grid(); _render()
reset ==
    /\ sim_op' = <<"reset", running>>
    /\ Paused
    /\ c' = ZeroGrid
    /\ rendered' = TRUE
    /\ UNCHANGED <<ticks, clipped>>

\* An engine constructed over any bank, driven directly by its methods.
Init ==
    /\ \E questions \in Banks : EngineInit(questions)
    /\ AppInit("QuizEngine")
    /\ SimInit

\* A variant of the reset that keeps the old answer records.
ClearedKeep(h) == h

\* self.history.clear()
Cleared(h) == <<>>

\* prepare_quiz(n, category, shuffle)
prepare_quiz(n, category, shuffle) ==
    LET pool == PoolOf(all_questions, category)
    IN  /\ \E shuffled \in (IF shuffle THEN Shuffles(pool) ELSE {pool}) :
              quiz_items' = Truncate(shuffled, n)
        /\ index' = 0
        /\ correct_count' = 0
        /\ history' = Cleared(history)
        /\ op' = "prepare_quiz"
        /\ args' = <<n, category, shuffle>>
        /\ ret' = <<>>
        /\ ended' = FALSE
        /\ UNCHANGED all_questions

\* current(): Optional[Question], <<q>> for the question at index and <<>>
\* for None.
current ==
    IF 0 <= index /\ index < Len(quiz_items)
    THEN <<all_questions[quiz_items[index + 1]]>>
    ELSE <<>>

\* A variant without the lower test, where Python counts a negative index
\* from the end of the list.
ChoiceTextWrap(q, i) ==
    IF i < Len(q.choices)
    THEN q.choices[IF i < 0 THEN Len(q.choices) + i + 1 ELSE i + 1]
    ELSE ""

\* q.choices[i] if 0 <= i < len(q.choices) else ""
ChoiceText(q, i) ==
    IF 0 <= i /\ i < Len(q.choices) THEN q.choices[i + 1] ELSE ""

\* A variant that compares the chosen text with the correct text.
is_correct_text(chosen_index, q) ==
    ChoiceText(q, chosen_index) = ChoiceText(q, q.correct_index)

\* is_correct = (chosen_index == q.correct_index)
is_correct(chosen_index, q) == chosen_index = q.correct_index

\* rec = {...}: the answer record built for question q.
rec(q, chosen_index) ==
    [id |-> q.id,
     question |-> q.question,
     chosen |-> ChoiceText(q, chosen_index),
     correct_text |-> ChoiceText(q, q.correct_index),
     is_correct |-> is_correct(chosen_index, q),
     rationale |-> q.rationale,
     category |-> q.category,
     difficulty |-> q.difficulty]

\* A variant that counts every submitted answer.
CountedAlways(cc, correct) == cc + 1

\* A variant that takes a point away for a wrong answer.
CountedPenalty(cc, correct) == IF correct THEN cc + 1 ELSE cc - 1

\* if is_correct: self.correct_count += 1
Counted(cc, correct) == IF correct THEN cc + 1 ELSE cc

\* A variant that puts the new record first.
RecordedFirst(h, r) == <<r>> \o h

\* self.history.append(rec)
Recorded(h, r) == Append(h, r)

\* A variant whose guard still logs an (empty) answer.
check_and_record_logged(chosen_index) ==
    LET q == current[1]
    IN  /\ Len(history) < MaxHist
        /\ IF current = <<>>
           THEN /\ ret' = <<FALSE, "">>
                /\ history' = Append(history, [id |-> "", question |-> "",
                       chosen |-> "", correct_text |-> "", is_correct |-> FALSE,
                       rationale |-> "", category |-> "", difficulty |-> ""])
                /\ UNCHANGED correct_count
           ELSE /\ correct_count' = Counted(correct_count, is_correct(chosen_index, q))
                /\ history' = Recorded(history, rec(q, chosen_index))
                /\ ret' = <<is_correct(chosen_index, q), q.rationale>>
        /\ op' = "check_and_record"
        /\ args' = <<chosen_index>>
        /\ UNCHANGED <<all_questions, quiz_items, index, ended>>

\* check_and_record(chosen_index)
check_and_record(chosen_index) ==
    LET q == current[1]
    IN  /\ IF current = <<>>
           THEN /\ ret' = <<FALSE, "">>
                /\ UNCHANGED <<correct_count, history>>
           ELSE /\ Len(history) < MaxHist
                /\ correct_count' = Counted(correct_count, is_correct(chosen_index, q))
                /\ history' = Recorded(history, rec(q, chosen_index))
                /\ ret' = <<is_correct(chosen_index, q), q.rationale>>
        /\ op' = "check_and_record"
        /\ args' = <<chosen_index>>
        /\ UNCHANGED <<all_questions, quiz_items, index, ended>>

\* A variant that advances without looking at the number of items.
AdvancesAlways(idx, items) == TRUE

\* A variant that is off by one at the last item.
AdvancesOffByOne(idx, items) == idx < Len(items)

\* if self.index + 1 < len(self.quiz_items)
Advances(idx, items) == idx + 1 < Len(items)

\* A variant that starts over at the first item after the last one.
next_wrapping ==
    /\ IF Advances(index, quiz_items)
       THEN index' = index + 1
       ELSE index' = 0
    /\ ret' = <<TRUE>>
    /\ op' = "next"
    /\ args' = <<>>
    /\ UNCHANGED <<all_questions, quiz_items, correct_count, history, ended>>

\* next()
next ==
    /\ IF Advances(index, quiz_items)
       THEN /\ index' = index + 1
            /\ ret' = <<TRUE>>
            /\ UNCHANGED ended
       ELSE /\ ret' = <<FALSE>>
            /\ ended' = TRUE
            /\ UNCHANGED index
    /\ op' = "next"
    /\ args' = <<>>
    /\ UNCHANGED <<all_questions, quiz_items, correct_count, history>>

\* ------------------------------------------------------- recommendations
\* One line of the text _build_recommendations returns: its kind ("great",
\* "focus", "topic", "note", "toughest"), the category or difficulty it
\* names, the note number and the rationale text.
Line(kind, name, n, text) == [kind |-> kind, name |-> name, n |-> n, text |-> text]

Range(s) == {s[i] : i \in DOMAIN s}

\* Keys of a Counter fed with the elements of s, in insertion order.
RECURSIVE Keys(_)
Keys(s) ==
    IF s = <<>> THEN <<>>
    ELSE LET k == Keys(SubSeq(s, 1, Len(s) - 1))
             x == s[Len(s)]
         IN  IF x \in Range(k) THEN k ELSE Append(k, x)

\* Counter: the (key, count) items of the elements of s, in insertion order.
Counter(s) ==
    LET k == Keys(s)
    IN  [i \in DOMAIN k |-> <<k[i], Cardinality({j \in DOMAIN s : s[j] = k[i]})>>]

\* sorted(items, key=count, reverse=True): stable, so equal counts keep
\* their insertion order.
RECURSIVE SortedDesc(_)
SortedDesc(items) ==
    IF items = <<>> THEN <<>>
    ELSE LET rest == SortedDesc(SubSeq(items, 1, Len(items) - 1))
             x == items[Len(items)]
             pos == Cardinality({i \in DOMAIN rest : rest[i][2] >= x[2]})
         IN  SubSeq(rest, 1, pos) \o <<x>> \o SubSeq(rest, pos + 1, Len(rest))

\* A variant that leaves the items in insertion order.
most_common_unsorted(items, n) == PyPrefix(items, n)

\* Counter.most_common(n)
most_common(items, n) == PyPrefix(SortedDesc(items), n)

\* A variant that never takes the "no missed questions" branch.
NoWrongNever(wrong_by_cat) == FALSE

\* if not wrong_by_cat
NoWrong(wrong_by_cat) == wrong_by_cat = <<>>

IsWrong(r) == ~r.is_correct

\* rationales[cat]: the non-empty rationales of the wrong answers in cat.
RECURSIVE RationalesOf(_, _)
RationalesOf(wrong, cat) ==
    IF wrong = <<>> THEN <<>>
    ELSE LET r == wrong[1]
             tail == RationalesOf(Tail(wrong), cat)
         IN  IF r.category = cat /\ r.rationale # "" THEN <<r.rationale>> \o tail
             ELSE tail

\* for i, r in enumerate(rationales.get(cat, [])[:2], start=1)
NoteLines(wrong, cat) ==
    LET hints == PyPrefix(RationalesOf(wrong, cat), 2)
    IN  [i \in DOMAIN hints |-> Line("note", cat, i, hints[i])]

\* for cat in top_cats: the topic line and its notes.
RECURSIVE TopicLines(_, _)
TopicLines(wrong, top_cats) ==
    IF top_cats = <<>> THEN <<>>
    ELSE <<Line("topic", top_cats[1], 0, "")>> \o NoteLines(wrong, top_cats[1])
         \o TopicLines(wrong, Tail(top_cats))

\* _build_recommendations() for engine value e with history hist; <<>> is
\* the empty string.
build_recommendations(e, hist) ==
    IF e = None \/ hist = <<>> THEN <<>>
    ELSE LET wrong == SelectSeq(hist, IsWrong)
             wrong_by_cat == Counter([i \in DOMAIN wrong |-> wrong[i].category])
             wrong_by_diff == Counter([i \in DOMAIN wrong |-> wrong[i].difficulty])
         IN  IF NoWrong(wrong_by_cat)
             THEN <<Line("great", "", 0, "")>>
             ELSE LET top == most_common(wrong_by_cat, 3)
                      top_cats == [i \in DOMAIN top |-> top[i][1]]
                      hardest == IF wrong_by_diff # <<>>
                                 THEN most_common(wrong_by_diff, 1)[1][1]
                                 ELSE ""
                  IN  <<Line("focus", "", 0, "")>>
                      \o TopicLines(wrong, top_cats)
                      \o (IF hardest # "" THEN <<Line("toughest", hardest, 0, "")>>
                          ELSE <<>>)

\* ------------------------------------------------------------- finishing
\* pct = int(100 * score / max(1, total))
pct(score, total) == (100 * score) \div Max(1, total)

\* A variant that needs more than the threshold.
PassesStrict(p, threshold) == p > threshold

\* (pct / 100.0) >= self.pass_threshold, both sides in percent.
Passes(p, threshold) == p >= threshold

\* finish_quiz() run on an engine with the given score, items and history
\* under the given threshold.
finish_quiz(score, total, hist, threshold) ==
    /\ passed' = Passes(pct(score, total), threshold)
    /\ rec_text' = build_recommendations("QuizEngine", hist)

\* ---------------------------------------------------------- the application
\* Records of a question file as json.load returns them: dicts that may lack
\* keys.  The last one has only the required keys.
RawRecords ==
    {Q1,
     [question |-> "t4", choices |-> <<"a", "b">>, correct_index |-> 0],
     [id |-> "q1", category |-> "A", choices |-> <<"a", "b">>, correct_index |-> 0],
     [id |-> "q1", category |-> "A", question |-> "t1", correct_index |-> 0],
     [id |-> "q1", category |-> "A", question |-> "t1", choices |-> <<"a", "b">>]}

\* The files load_questions_from_path may be given: text that is not JSON,
\* or a list of records.
RawFiles ==
    {[wellformed |-> FALSE, records |-> <<>>]}
    \cup {[wellformed |-> TRUE, records |-> r] :
             r \in UNION {[1..k -> RawRecords] : k \in 0..MaxFile}}

\* d.get(key, default)
Get(d, key, default) == IF key \in DOMAIN d THEN d[key] ELSE default

\* d[key] raises KeyError for a missing key.
Raises(d) == ~({"question", "choices", "correct_index"} \subseteq DOMAIN d)

\* Question.from_dict(d), for a d that does not raise.
from_dict(d) ==
    [id |-> Get(d, "id", ""),
     category |-> Get(d, "category", "General"),
     difficulty |-> Get(d, "difficulty", ""),
     question |-> d.question,
     choices |-> d.choices,
     correct_index |-> d.correct_index,
     rationale |-> Get(d, "rationale", "")]

\* json.load or one of the from_dict calls raises.
LoadFails(raw) ==
    ~raw.wellformed \/ \E i \in DOMAIN raw.records : Raises(raw.records[i])

\* categories()
categories(bank) == {bank[i].category : i \in DOMAIN bank}

\* What the last handler did besides changing fields.
Shown(m, doc) == msg' = m /\ cert' = doc

\* self.engine = QuizEngine(questions)
NewEngine(questions) ==
    /\ engine' = "QuizEngine"
    /\ all_questions' = questions
    /\ quiz_items' = <<>>
    /\ index' = 0
    /\ correct_count' = 0
    /\ history' = <<>>
    /\ op' = "__init__"
    /\ args' = <<>>
    /\ ret' = <<>>
    /\ ended' = FALSE

\* A variant that drops the records it cannot parse and keeps the rest.
load_questions_skipping(raw) ==
    /\ IF ~raw.wellformed
       THEN /\ Shown("Load error", <<>>)
            /\ UNCHANGED <<engine_vars, engine>>
       ELSE /\ NewEngine(LET good == SelectSeq(raw.records, LAMBDA d : ~Raises(d))
                         IN  [i \in DOMAIN good |-> from_dict(good[i])])
            /\ Shown(IF LoadFails(raw) THEN "Load error" ELSE "", <<>>)
    /\ UNCHANGED <<pass_threshold, passed, rec_text>>

\* load_questions_from_path(path), raw being the content of the file.
load_questions_from_path(raw) ==
    /\ IF LoadFails(raw)
       THEN /\ Shown("Load error", <<>>)
            /\ UNCHANGED <<engine_vars, engine>>
       ELSE /\ NewEngine([i \in DOMAIN raw.records |-> from_dict(raw.records[i])])
            /\ Shown("", <<>>)
    /\ UNCHANGED <<pass_threshold, passed, rec_text>>

\* What the entry fields hold: <<x>> for text that parses as the number x,
\* <<>> for any other text.
ThrEntries == {<<>>, <<-10>>, <<150>>}
NumEntries == {<<>>, <<0>>, <<2>>}

\* max(0.0, min(1.0, float(self.thr_var.get()) / 100.0)), or the default
\* when float() raises; in percent.
Threshold(entry) ==
    IF entry = <<>> THEN PASS_THRESHOLD_DEFAULT
    ELSE Max(0, Min(100, entry[1]))

\* max(1, int(self.num_q_var.get())), or 10 when int() raises.
QuizSize(entry) == IF entry = <<>> THEN 10 ELSE Max(1, entry[1])

\* start_quiz(), with the contents of the threshold entry, the number
\* entry, the category box and the shuffle box.  (The name dialog only feeds
\* the text of the certificate.)
start_quiz(thr, num, category, shuffle) ==
    IF engine = None
    THEN /\ Shown("No questions", <<>>)
         /\ UNCHANGED <<engine_vars, engine, pass_threshold, passed, rec_text>>
    ELSE /\ pass_threshold' = Threshold(thr)
         /\ prepare_quiz(QuizSize(num),
                         IF category = "All" THEN None ELSE category, shuffle)
         /\ IF quiz_items' = <<>>
            THEN finish_quiz(correct_count', Len(quiz_items'), history',
                             pass_threshold')
            ELSE passed' = FALSE /\ UNCHANGED rec_text
         /\ Shown("", <<>>)
         /\ UNCHANGED engine

\* retake_quiz(): self.start_quiz()
retake_quiz(thr, num, category, shuffle) ==
    start_quiz(thr, num, category, shuffle)

\* The values choice_var can hold when Submit is pressed: -1, or the value of
\* one of the radio buttons shown.
ChoiceValues ==
    IF current = <<>> THEN {-1}
    ELSE {i \in ChosenValues : i < Len(current[1].choices)}

\* submit_answer(), idx being choice_var.  Without an engine the handler
\* raises AttributeError, which the Tk event loop reports and drops.
submit_answer(idx) ==
    IF engine = None \/ current = <<>>
    THEN /\ Shown("", <<>>)
         /\ UNCHANGED <<engine_vars, engine, pass_threshold, passed, rec_text>>
    ELSE IF idx < 0
    THEN /\ Shown("Pick one", <<>>)
         /\ UNCHANGED <<engine_vars, engine, pass_threshold, passed, rec_text>>
    ELSE /\ check_and_record(idx)
         /\ Shown("", <<>>)
         /\ UNCHANGED <<engine, pass_threshold, passed, rec_text>>

\* next_question()
next_question ==
    IF engine = None
    THEN /\ Shown("", <<>>)
         /\ UNCHANGED <<engine_vars, engine, pass_threshold, passed, rec_text>>
    ELSE /\ next
         /\ IF ret' = <<TRUE>>
            THEN UNCHANGED <<passed, rec_text>>
            ELSE finish_quiz(correct_count, Len(quiz_items), history,
                             pass_threshold)
         /\ Shown("", <<>>)
         /\ UNCHANGED <<engine, pass_threshold>>

\* A variant that does not look at the pass flag.
BlockedNever(p) == FALSE

\* if not self.passed
Blocked(p) == ~p

\* generate_cert(), with whether the verify and the save dialogs were
\* answered (a cancelled one ends the handler); the certificate carries the
\* score and the total.
generate_cert(verify, path) ==
    /\ IF engine = None \/ quiz_items = <<>>
       THEN Shown("No results", <<>>)
       ELSE IF Blocked(passed)
       THEN Shown("Threshold not met", <<>>)
       ELSE IF path /\ verify
       THEN Shown("Certificate", <<correct_count, Len(quiz_items)>>)
       ELSE Shown("", <<>>)
    /\ UNCHANGED <<engine_vars, engine, pass_threshold, passed, rec_text>>

\* TrainerApp.__init__ without a default questions.json.
InitApp == EngineInit(<<>>) /\ AppInit(None) /\ SimInit

NextApp ==
    \/ \E raw \in RawFiles :
           load_questions_from_path(raw) /\ UNCHANGED sim_vars
    \/ \E thr \in ThrEntries, num \in NumEntries,
          category \in {"All"} \cup categories(all_questions),
          shuffle \in BOOLEAN :
           start_quiz(thr, num, category, shuffle) /\ UNCHANGED sim_vars
    \/ \E thr \in ThrEntries, num \in NumEntries,
          category \in {"All"} \cup categories(all_questions),
          shuffle \in BOOLEAN :
           retake_quiz(thr, num, category, shuffle) /\ UNCHANGED sim_vars
    \/ \E idx \in ChoiceValues : submit_answer(idx) /\ UNCHANGED sim_vars
    \/ next_question /\ UNCHANGED sim_vars
    \/ \E verify \in BOOLEAN, path \in BOOLEAN :
           generate_cert(verify, path) /\ UNCHANGED sim_vars

SpecApp == InitApp /\ [][NextApp]_vars

Next ==
    \/ \E n \in NValues, category \in CategoryValues, shuffle \in BOOLEAN :
           prepare_quiz(n, category, shuffle) /\ UNCHANGED <<app_vars, sim_vars>>
    \/ \E chosen_index \in ChosenValues :
           check_and_record(chosen_index) /\ UNCHANGED <<app_vars, sim_vars>>
    \/ next /\ UNCHANGED <<app_vars, sim_vars>>

Spec == Init /\ [][Next]_vars

\* An engine right after prepare_quiz(n, category, shuffle) on a new engine
\* over any bank.
InitSession ==
    /\ \E questions \in Banks, n \in NValues, category \in CategoryValues,
          shuffle \in BOOLEAN :
          LET pool == PoolOf(questions, category)
          IN  /\ all_questions = questions
              /\ \E shuffled \in (IF shuffle THEN Shuffles(pool) ELSE {pool}) :
                    quiz_items = Truncate(shuffled, n)
              /\ args = <<n, category, shuffle>>
    /\ index = 0
    /\ correct_count = 0
    /\ history = <<>>
    /\ op = "prepare_quiz"
    /\ ret = <<>>
    /\ ended = FALSE
    /\ AppInit("QuizEngine")
    /\ SimInit

\* One session: answers and next() calls in any order.
NextSession ==
    \/ \E chosen_index \in ChosenValues :
           check_and_record(chosen_index) /\ UNCHANGED <<app_vars, sim_vars>>
    \/ next /\ UNCHANGED <<app_vars, sim_vars>>

\* One session with a caller that keeps calling next().
SpecSession ==
    /\ InitSession
    /\ [][NextSession]_vars
    /\ WF_vars(next /\ UNCHANGED <<app_vars, sim_vars>>)

\* The simulator tab: the three buttons and the timer callback, the sliders
\* standing anywhere when a tick reads them.
InitSim == EngineInit(<<>>) /\ AppInit(None) /\ SimInit

NextSim ==
    \/ \E s \in SliderSettings : start(s) /\ UNCHANGED <<engine_vars, app_vars>>
    \/ \E id \in timers, s \in SliderSettings :
           loop(id, s) /\ UNCHANGED <<engine_vars, app_vars>>
    \/ pause /\ UNCHANGED <<engine_vars, app_vars>>
    \/ reset /\ UNCHANGED <<engine_vars, app_vars>>

SpecSim == InitSim /\ [][NextSim]_vars

\* The sliders with the buoyancy and the vent at 0: the leak alone, and
\* diffusion alone at the position __init__ sets and at the upper end of its
\* slider.
DiffusionOnly ==
    {[leak_rate |-> 0, vent_strength |-> 0, buoyancy |-> 0, diffusion |-> Frac(2, 10)],
     [leak_rate |-> 0, vent_strength |-> 0, buoyancy |-> 0, diffusion |-> Frac(6, 10)]}

DiffusionSettings ==
    {[leak_rate |-> 2 * Scale, vent_strength |-> 0, buoyancy |-> 0, diffusion |-> 0]}
    \cup DiffusionOnly

\* The simulator tab with the sliders standing at one of DiffusionSettings
\* when a tick reads them.
NextDiffuse ==
    \/ \E s \in DiffusionSettings : start(s) /\ UNCHANGED <<engine_vars, app_vars>>
    \/ \E id \in timers, s \in DiffusionSettings :
           loop(id, s) /\ UNCHANGED <<engine_vars, app_vars>>
    \/ pause /\ UNCHANGED <<engine_vars, app_vars>>
    \/ reset /\ UNCHANGED <<engine_vars, app_vars>>

SpecDiffuse == InitSim /\ [][NextDiffuse]_vars

\* ------------------------------------------------- finishing a session
\* Questions of five categories for the sessions the recommendations are
\* built from; RA1 and RA2 share a category but not a rationale, RB has no
\* rationale and RD no difficulty.
RA1 == [id |-> "a1", category |-> "A", difficulty |-> "easy", question |-> "ta1",
        choices |-> <<"a", "b">>, correct_index |-> 0, rationale |-> "r1"]
RA2 == [id |-> "a2", category |-> "A", difficulty |-> "hard", question |-> "ta2",
        choices |-> <<"a", "b">>, correct_index |-> 0, rationale |-> "r2"]
RB == [id |-> "b1", category |-> "B", difficulty |-> "hard", question |-> "tb",
       choices |-> <<"a", "b">>, correct_index |-> 0, rationale |-> ""]
RC == [id |-> "c1", category |-> "C", difficulty |-> "easy", question |-> "tc",
       choices |-> <<"a", "b">>, correct_index |-> 0, rationale |-> "r3"]
RD == [id |-> "d1", category |-> "D", difficulty |-> "", question |-> "td",
       choices |-> <<"a", "b">>, correct_index |-> 0, rationale |-> "r4"]
RE == [id |-> "e1", category |-> "E", difficulty |-> "easy", question |-> "te",
       choices |-> <<"a", "b">>, correct_index |-> 0, rationale |-> "r5"]

\* A question with the choice submitted for it: wrong answers to RA1..RD and
\* the right answer to RE.
AnswerKinds == {<<RA1, 1>>, <<RA2, 1>>, <<RB, 1>>, <<RC, 1>>, <<RD, 1>>, <<RE, 0>>}

\* The application around a loaded engine, a quiz started under threshold
\* thr and nothing finished yet.
QuizRunning(thr) ==
    /\ engine = "QuizEngine"
    /\ pass_threshold = thr
    /\ passed = FALSE
    /\ rec_text = <<>>
    /\ msg = ""
    /\ cert = <<>>
    /\ SimInit

\* The engine on the last item of a quiz over the questions of answers, taken
\* in bank order, each answered once with the choice given.
Answered(answers) ==
    LET L == Len(answers)
        h == [i \in 1..L |-> rec(answers[i][1], answers[i][2])]
    IN  /\ all_questions = [i \in 1..L |-> answers[i][1]]
        /\ quiz_items = [i \in 1..L |-> i]
        /\ index = L - 1
        /\ history = h
        /\ correct_count = Cardinality({i \in 1..L : h[i].is_correct})
        /\ op = "check_and_record"
        /\ args = <<answers[L][2]>>
        /\ ret = <<h[L].is_correct, h[L].rationale>>
        /\ ended = FALSE

\* The engine on the last of T >= 1 items with no answer submitted.
Unanswered(T) ==
    /\ all_questions = [i \in 1..T |-> Q1]
    /\ quiz_items = [i \in 1..T |-> i]
    /\ index = T - 1
    /\ history = <<>>
    /\ correct_count = 0
    /\ op = IF T = 1 THEN "prepare_quiz" ELSE "next"
    /\ args = IF T = 1 THEN <<1, None, FALSE>> ELSE <<>>
    /\ ret = IF T = 1 THEN <<>> ELSE <<TRUE>>
    /\ ended = FALSE

\* Sessions about to be finished: T items of which the first s were answered
\* right and the others wrong, under any whole-percent threshold; T items
\* left unanswered; and every mix of up to MaxRecs answers of AnswerKinds
\* under the default threshold.
InitFinish ==
    \/ \E T \in 1..MaxTotal, s \in 0..MaxTotal, thr \in 0..100 :
          /\ s <= T
          /\ Answered([i \in 1..T |-> <<Q1, IF i <= s THEN 0 ELSE 1>>])
          /\ QuizRunning(thr)
    \/ \E T \in 1..MaxTotal, thr \in {0, PASS_THRESHOLD_DEFAULT} :
          Unanswered(T) /\ QuizRunning(thr)
    \/ \E L \in 1..MaxRecs :
          \E answers \in [1..L -> AnswerKinds] :
              Answered(answers) /\ QuizRunning(PASS_THRESHOLD_DEFAULT)

\* Pressing Next on the last item finishes the quiz.
NextFinish == next_question /\ UNCHANGED sim_vars

SpecFinish == InitFinish /\ [][NextFinish]_vars

\* ------------------------------------------------------------ properties
\* current() is a question: index lies in 0..len(quiz_items)-1.
HasCurrent == index \in 0..(Len(quiz_items) - 1)

\* Bank positions matching a category filter (None matches every question).
Matching(category) ==
    {i \in 1..Len(all_questions) :
        category = None \/ all_questions[i].category = category}

\* Number of history entries marked correct.
CorrectEntries == Cardinality({i \in 1..Len(history) : history[i].is_correct})

\* C1: in every reachable state len(history) <= len(quiz_items).
C1_HistoryWithinItems == Len(history) <= Len(quiz_items)

\* C2: once next() has returned False in the current session, every later
\* check_and_record returns (False, "") and leaves history and correct_count
\* unchanged.
C2_IgnoredAfterEnd ==
    [][(ended /\ op' = "check_and_record")
         => (ret' = <<FALSE, "">> /\ history' = history
             /\ correct_count' = correct_count)]_vars

\* C3: when current() is absent, check_and_record(i) returns (False, "") and
\* leaves index, correct_count, history and quiz_items unchanged.
C3_GuardedNoOp ==
    [][(op' = "check_and_record" /\ ~HasCurrent)
         => (ret' = <<FALSE, "">>
             /\ UNCHANGED <<index, correct_count, history, quiz_items>>)]_vars

\* C3 witness: check_and_record was called on a session without a current
\* question and answered (False, "").
C3_Witness ==
    /\ op = "check_and_record"
    /\ ~HasCurrent
    /\ ret = <<FALSE, "">>
    /\ history = <<>>

\* C4: correct_count equals the number of history entries whose is_correct
\* flag is true.
C4_CountMatchesHistory == correct_count = CorrectEntries

\* C4 witness: a history holding both a correct and an incorrect answer.
C4_Witness ==
    /\ correct_count >= 1
    /\ \E i \in 1..Len(history) : ~history[i].is_correct

\* C5: within a session correct_count never decreases under check_and_record
\* or next, and correct_count <= len(history) in every reachable state.
C5_ScoreMonotone ==
    /\ [](correct_count <= Len(history))
    /\ [][op' # "prepare_quiz" => correct_count' >= correct_count]_vars

\* C5 witness: a wrong answer submitted after a right one left the score
\* where it was.
C5_Witness ==
    /\ op = "check_and_record"
    /\ ret[1] = FALSE
    /\ correct_count >= 1
    /\ correct_count < Len(history)

\* C6: 0 <= index <= len(quiz_items) in every reachable state; index changes
\* only by +1 through next() and to 0 through prepare_quiz.
C6_IndexBounds ==
    /\ [](0 <= index /\ index <= Len(quiz_items))
    /\ [][index' # index
            => \/ (op' = "next" /\ index' = index + 1)
               \/ (op' = "prepare_quiz" /\ index' = 0)]_vars

\* C6 witness: next() has advanced the index.
C6_Witness ==
    /\ op = "next"
    /\ ret = <<TRUE>>
    /\ index >= 1

\* C7: after prepare_quiz(n, category, shuffle),
\* len(quiz_items) = min(max(1, n), P), P the number of matching questions.
C7_PoolTruncation ==
    op = "prepare_quiz"
      => Len(quiz_items)
           = Min(Max(1, args[1]), Cardinality(Matching(args[2])))

\* C7 witness: prepare_quiz with n <= 0 on a non-empty pool kept one item.
C7_Witness ==
    /\ op = "prepare_quiz"
    /\ args[1] <= 0
    /\ Cardinality(Matching(args[2])) >= 2
    /\ Len(quiz_items) = 1

\* C8: every quiz item is a pool member and no bank position is selected
\* twice; with shuffle = false the quiz items are exactly the first
\* min(max(1, n), P) matching questions in bank order.
C8_FirstInBankOrder ==
    op = "prepare_quiz"
      => LET M == Matching(args[2])
             k == Min(Max(1, args[1]), Cardinality(M))
             I == 1..Len(quiz_items)
         IN  /\ \A i \in I : quiz_items[i] \in M
             /\ \A i, j \in I : i # j => quiz_items[i] # quiz_items[j]
             /\ ~args[3]
                  => /\ Len(quiz_items) = k
                     /\ \A i, j \in I : i < j => quiz_items[i] < quiz_items[j]
                     /\ \A m \in M : \/ \E i \in I : quiz_items[i] = m
                                     \/ \A i \in I : quiz_items[i] < m

\* C8 witness: an unshuffled, filtered quiz that skipped a non-matching bank
\* question.
C8_Witness ==
    /\ op = "prepare_quiz"
    /\ ~args[3]
    /\ args[2] # None
    /\ Len(quiz_items) >= 1
    /\ quiz_items[1] > 1

\* C9: prepare_quiz leaves index = 0, correct_count = 0 and history empty.
C9_FullReset ==
    [][op' = "prepare_quiz"
         => (index' = 0 /\ correct_count' = 0 /\ history' = <<>>)]_vars

\* C9 witness: a freshly prepared, non-empty session.
C9_Witness ==
    /\ op = "prepare_quiz"
    /\ Len(quiz_items) >= 1
    /\ index = 0
    /\ correct_count = 0
    /\ history = <<>>

\* C10: check_and_record with a current question appends exactly one record
\* at the end, without one it appends none, and neither check_and_record nor
\* next changes an existing history entry.
C10_AppendOnly ==
    [][/\ op' = "check_and_record"
          => IF HasCurrent
             THEN /\ Len(history') = Len(history) + 1
                  /\ SubSeq(history', 1, Len(history)) = history
             ELSE history' = history
       /\ op' = "next" => history' = history]_vars

\* C10 witness: a second, different record was appended after the first.
C10_Witness ==
    /\ op = "check_and_record"
    /\ Len(history) >= 2
    /\ history[1] # history[Len(history)]


\* C11: with a current question q, check_and_record(i) returns
\* isCorrect = (i = q.correct_index), adds 1 to correct_count iff isCorrect,
\* appends a record carrying that flag and q's category, difficulty and
\* rationale, and leaves index and quiz_items unchanged.
C11_CheckAndRecord ==
    [][(op' = "check_and_record" /\ HasCurrent)
         => LET q == all_questions[quiz_items[index + 1]]
                ok == (args'[1] = q.correct_index)
                r == history'[Len(history')]
            IN  /\ ret'[1] = ok
                /\ correct_count' = correct_count + (IF ok THEN 1 ELSE 0)
                /\ Len(history') = Len(history) + 1
                /\ r.is_correct = ret'[1]
                /\ r.category = q.category
                /\ r.difficulty = q.difficulty
                /\ r.rationale = q.rationale
                /\ UNCHANGED <<index, quiz_items>>]_vars

\* C11 witness: a right answer to a category B question was recorded.
C11_Witness ==
    /\ op = "check_and_record"
    /\ HasCurrent
    /\ ret[1] = TRUE
    /\ history[Len(history)].category = "B"
    /\ history[Len(history)].is_correct

\* C12: next() returns True and adds 1 to index iff index + 1 <
\* len(quiz_items); otherwise it returns False and leaves index,
\* correct_count, history and quiz_items unchanged.
C12_NextAdvances ==
    [][op' = "next"
         => IF index + 1 < Len(quiz_items)
            THEN ret' = <<TRUE>> /\ index' = index + 1
            ELSE /\ ret' = <<FALSE>>
                 /\ UNCHANGED <<index, correct_count, history, quiz_items>>]_vars

\* C12 witness: next() refused to advance past the last of several items.
C12_Witness ==
    /\ op = "next"
    /\ ret = <<FALSE>>
    /\ index >= 1
    /\ index = Len(quiz_items) - 1
    /\ history # <<>>


\* The quiz has just been finished: next() returned False and finish_quiz ran.
Finished == op = "next" /\ ret = <<FALSE>>

\* C13: a quiz of total >= 1 items finished under a whole-percent threshold t
\* is passed iff 100 * score >= t * total.
C13_PassBoundary ==
    (Finished /\ Len(quiz_items) >= 1)
      => (passed <=> (100 * correct_count >= pass_threshold * Len(quiz_items)))

\* C13 witness: 7 of 10 at 70% passed.
C13_Witness ==
    /\ Finished
    /\ Len(quiz_items) = 10
    /\ correct_count = 7
    /\ pass_threshold = 70
    /\ passed

WrongIn(cat) == {i \in DOMAIN history : ~history[i].is_correct /\ history[i].category = cat}
WrongCats == {history[i].category : i \in {j \in DOMAIN history : ~history[j].is_correct}}
FirstWrong(cat) == CHOOSE i \in WrongIn(cat) : \A j \in WrongIn(cat) : i <= j

\* Category c1 ranks before c2: more wrong answers, or as many and seen first.
RanksBefore(c1, c2) ==
    \/ Cardinality(WrongIn(c1)) > Cardinality(WrongIn(c2))
    \/ /\ Cardinality(WrongIn(c1)) = Cardinality(WrongIn(c2))
       /\ FirstWrong(c1) < FirstWrong(c2)

IsTopic(l) == l.kind = "topic"

\* The categories the recommendations list, in the order listed.
Topics ==
    LET t == SelectSeq(rec_text, IsTopic) IN [i \in DOMAIN t |-> t[i].name]

\* C15: the recommendations list at most 3 categories, only categories with a
\* wrong answer, by number of wrong answers descending and first-seen order
\* among equal numbers.
C15_Ranking ==
    Finished
      => /\ Len(Topics) = Min(3, Cardinality(WrongCats))
         /\ \A i \in DOMAIN Topics : Topics[i] \in WrongCats
         /\ \A i, j \in DOMAIN Topics : i < j => RanksBefore(Topics[i], Topics[j])
         /\ \A cat \in WrongCats \ Range(Topics) :
                \A i \in DOMAIN Topics : RanksBefore(Topics[i], cat)

\* C15 witness: wrong answers {A:3, B:1, C:2} gave [A, C, B].
C15_Witness ==
    /\ Finished
    /\ Cardinality(WrongIn("A")) = 3
    /\ Cardinality(WrongIn("B")) = 1
    /\ Cardinality(WrongIn("C")) = 2
    /\ FirstWrong("B") < FirstWrong("C")
    /\ Topics = <<"A", "C", "B">>

\* The "no missed questions" text.
GreatJob == <<Line("great", "", 0, "")>>

\* C16 as claimed: whenever the history holds no incorrect record, an empty
\* history included, the recommendations are the congratulatory message.
C16_CongratsWheneverNoneWrong ==
    (Finished /\ WrongCats = {}) => rec_text = GreatJob

\* C16 as amended: a non-empty history without an incorrect record gives the
\* congratulatory message, and an empty history gives the empty text.
C16_CongratsWhenAnsweredRight ==
    Finished
      => /\ (history # <<>> /\ WrongCats = {}) => rec_text = GreatJob
         /\ history = <<>> => rec_text = <<>>

\* C16 witness: a quiz answered without a mistake was congratulated.
C16_Witness ==
    /\ Finished
    /\ Len(history) >= 2
    /\ WrongCats = {}
    /\ rec_text = GreatJob

\* The notes the recommendations give for a category, in the order given.
NotesOf(cat) ==
    LET t == SelectSeq(rec_text, LAMBDA l : l.kind = "note" /\ l.name = cat)
    IN  [i \in DOMAIN t |-> t[i].text]

\* The rationales of the wrong answers of a category, in encounter order.
WrongRationales(cat) ==
    LET t == SelectSeq(history, LAMBDA r : ~r.is_correct /\ r.category = cat
                                           /\ r.rationale # "")
    IN  [i \in DOMAIN t |-> t[i].rationale]

\* C17: each listed category gets at most 2 notes, the first rationales of
\* its wrong answers in encounter order, and its notes are pairwise
\* distinct texts.
C17_DistinctNotes ==
    Finished
      => \A cat \in Range(Topics) :
            LET n == NotesOf(cat)
            IN  /\ Len(n) <= 2
                /\ n = SubSeq(WrongRationales(cat), 1, Len(n))
                /\ \A i, j \in DOMAIN n : i # j => n[i] # n[j]


\* A record lacks one of the required keys.
Incomplete(d) == \E k \in {"question", "choices", "correct_index"} : k \notin DOMAIN d

\* The sources that are malformed or hold an incomplete record.
BadFiles ==
    {raw \in RawFiles :
        ~raw.wellformed \/ \E i \in DOMAIN raw.records : Incomplete(raw.records[i])}

\* The step reported a load error and left the engine, its bank, its session
\* and the pass flag as they were.
LoadRefused ==
    /\ msg' = "Load error"
    /\ engine' = engine
    /\ all_questions' = all_questions
    /\ quiz_items' = quiz_items
    /\ index' = index
    /\ correct_count' = correct_count
    /\ history' = history
    /\ passed' = passed

C19_GridClipped ==
    /\ \A p \in DOMAIN c : p[1] \in 0..(NY - 1) /\ p[2] \in 0..(NX - 1)
    /\ \A j \in 0..(NY - 1), i \in 0..(NX - 1) :
          At(c, j, i) >= 0 /\ At(c, j, i) <= 5 * Scale

\* C19 witness: a tick whose clip cut the leak cell down to 5.
C19_Witness ==
    /\ ticks >= 1
    /\ clipped
    /\ At(c, leak_cell[1], leak_cell[2]) = 5 * Scale

\* C20 as claimed: from a pause or a reset until the next start nothing
\* alters the field.
C20_FieldFrozenUntilStart ==
    [][(~running /\ ~running') => c' = c]_vars

\* C20 as amended: _step runs only in steps that leave the simulator
\* running; pause changes no cell; and while the simulator is not running
\* the field changes only by reset, which empties it.
C20_TicksOnlyWhileRunning ==
    [][/\ ticks' # ticks => running'
       /\ pause => c' = c
       /\ (~running /\ ~running' /\ c' # c) => (reset /\ c' = ZeroGrid)
       /\ ~running' => timers' = {}
      ]_vars

\* C20 witness: the simulator was paused with a callback pending after
\* several ticks, and the field kept its gas.
C20_Witness ==
    /\ ~running
    /\ ticks >= 2
    /\ c # ZeroGrid
    /\ timers = {}
    /\ after_id = <<>>


\* The simulator's fields, without the record of the handler that ran.
sim_fields == <<c, running, after_id, timers, ticks, clipped, rendered>>

\* C21: start() while running runs no tick, schedules no callback and leaves
\* the field as it is; pause() while stopped leaves the simulator stopped
\* with no callback pending and the field as it is.
C21_NoOps ==
    [][/\ sim_op' = <<"start", TRUE>>
            => (UNCHANGED sim_fields /\ running' /\ Cardinality(timers') = 1)
       /\ sim_op' = <<"pause", FALSE>>
            => (UNCHANGED sim_fields /\ ~running' /\ timers' = {})
      ]_vars

\* C21 witness: start was pressed while the simulator was running with gas
\* in the field and a callback pending.
C21_Witness ==
    /\ sim_op = <<"start", TRUE>>
    /\ running
    /\ ticks >= 2
    /\ c # ZeroGrid
    /\ timers # {}


\* C22: from any simulator state reset() leaves the simulator stopped with no
\* callback pending and every cell 0, and an all-zero field of a stopped
\* simulator stays all-zero for as long as it is not started.
C22_ResetZeroes ==
    [][/\ sim_op'[1] = "reset"
            => /\ ~running'
               /\ timers' = {}
               /\ after_id' = <<>>
               /\ \A j \in 0..(NY - 1), i \in 0..(NX - 1) : At(c', j, i) = 0
       /\ (~running /\ c = ZeroGrid /\ sim_op'[1] # "start") => c' = ZeroGrid
      ]_vars

\* C22 witness: reset was pressed while the simulator was running with gas in
\* the field.
C22_Witness ==
    /\ sim_op = <<"reset", TRUE>>
    /\ ticks >= 2
    /\ ~running
    /\ timers = {}
    /\ c = ZeroGrid


\* The sum of the cells of g that lie in cells.
RECURSIVE SumOver(_, _)
SumOver(g, cells) ==
    IF cells = {} THEN 0
    ELSE LET p == CHOOSE q \in cells : TRUE
         IN  g[p] + SumOver(g, cells \ {p})

\* The sum of the cells of g outside its outermost ring.
InteriorSum(g) ==
    SumOver(g, {p \in DOMAIN g : p[1] \in 1..(NY - 2) /\ p[2] \in 1..(NX - 2)})

\* What rounding every product down to a multiple of 1/Scale can take from
\* the sum of the cells of g: two products per cell.
Rounding(g) == 2 * Cardinality(DOMAIN g)

\* C23: a tick with leak, buoyancy and vent at 0 leaves the sum of the
\* interior cells as it was (up to rounding), whatever the field and the
\* diffusion coefficient.
C23_InteriorMassConserved ==
    [][\A s \in DiffusionOnly :
          (ticks' = ticks + 1 /\ c' = step(c, s))
            => /\ InteriorSum(c') <= InteriorSum(c) + Rounding(c')
               /\ InteriorSum(c') >= InteriorSum(c) - Rounding(c')
      ]_vars


\* C24: with a current question q, check_and_record(i) returns normally for
\* every i, appends a record whose chosen is "" when i is negative or
\* >= len(q.choices) and whose correct_text is "" when q.correct_index is
\* outside the choices (the text of the choice otherwise), and leaves index
\* unchanged.
C24_OutOfRangeTolerated ==
    [][(op' = "check_and_record" /\ HasCurrent)
         => LET q == all_questions[quiz_items[index + 1]]
                i == args'[1]
                n == Len(q.choices)
                r == history'[Len(history')]
            IN  /\ ret' = <<i = q.correct_index, q.rationale>>
                /\ Len(history') = Len(history) + 1
                /\ r.chosen = (IF i < 0 \/ i >= n THEN "" ELSE q.choices[i + 1])
                /\ r.correct_text = (IF q.correct_index < 0 \/ q.correct_index >= n
                                     THEN "" ELSE q.choices[q.correct_index + 1])
                /\ index' = index]_vars

\* C24 witness: a question whose correct_index is outside its choices was
\* answered twice with a choice outside them, the second time a negative one.
C24_Witness ==
    /\ op = "check_and_record"
    /\ Len(history) >= 2
    /\ \E k \in DOMAIN history :
          /\ k < Len(history)
          /\ history[k].id = "q3"
          /\ history[k].chosen = ""
          /\ history[k].correct_text = ""
    /\ args = <<-1>>
    /\ history[Len(history)].chosen = ""
    /\ history[Len(history)].id = "q3"


\* C25: in a session of N >= 1 items next() returns True while fewer than
\* N - 1 calls have (index counts them from prepare_quiz on, whatever
\* check_and_record calls come between) and False from then on; the session
\* ends only by a False return of next(), with all N - 1 True returns behind
\* it; and a caller that keeps calling next() gets there.
C25_NextTerminates ==
    /\ index = 0 /\ ~ended
    /\ [][/\ (op' = "next" /\ Len(quiz_items) >= 1)
               => /\ ret' = <<index < Len(quiz_items) - 1>>
                  /\ index' = IF ret' = <<TRUE>> THEN index + 1 ELSE index
                  /\ ended => ret' = <<FALSE>>
          /\ op' = "check_and_record" => index' = index
          /\ (~ended /\ ended') => (op' = "next" /\ ret' = <<FALSE>>)
          /\ (ended' /\ Len(quiz_items') >= 1) => index' = Len(quiz_items') - 1
         ]_vars
    /\ <>[]ended

\* C25 witness: next() returned False after it had returned True, and an
\* answer has been recorded.
C25_Witness ==
    /\ op = "next"
    /\ ret = <<FALSE>>
    /\ ended
    /\ Len(quiz_items) >= 2
    /\ index = Len(quiz_items) - 1
    /\ history # <<>>


\* C26: at most one callback is pending at any time, one is pending iff
\* running is set, and the pending one is the one after_id names.
C26_OneTimer ==
    /\ Cardinality(timers) <= 1
    /\ running <=> timers # {}
    /\ timers # {} => after_id # <<>> /\ timers = {after_id[1]}
    /\ ~running => after_id = <<>>

\* C26 witness: the simulator was started again after a pause or a reset and
\* has one callback pending.
C26_Witness ==
    /\ sim_op = <<"start", FALSE>>
    /\ ticks >= 3
    /\ running
    /\ Cardinality(timers) = 1

====
